---- MODULE Spec2Model ----
(***************************************************************************)
(* aioprometheus.asgi.middleware.MetricsMiddleware                         *)
(*                                                                         *)
(* State machine of the metrics middleware: lazy creation of the four      *)
(* counters, capture of the application handle, path classification,       *)
(* exclusion, and the accounting done around the call of the next ASGI     *)
(* callable (wrapped_send on the completed path, the except block on the   *)
(* failed path).                                                           *)
(*                                                                         *)
(* A middleware invocation (__call__) runs without suspension up to         *)
(* "await self.asgi_callable(...)"; while it is suspended there the next   *)
(* handler sends messages, returns, raises or is cancelled by the host.    *)
(***************************************************************************)
EXTENDS Integers, Sequences, FiniteSets, TLC

(***************************************************************************)
(* Bounds of the model.                                                    *)
(***************************************************************************)
MaxCalls == 2
MaxSends == 1
MaxEvents == 2
MaxInstances == 2
MaxWireSends == 2

CallIds == 1..MaxCalls
Instances == 1..MaxInstances

(***************************************************************************)
(* Python values.                                                          *)
(***************************************************************************)
None == "None"

\* middleware.py:13-21
EXCLUDE_PATHS ==
    {"/metrics", "/metrics/", "/docs", "/openapi.json",
     "/docs/oauth2-redirect", "/redoc", "/favicon.ico"}

\* The names under which create_metrics registers the four counters, in the
\* order of the four Counter(...) calls.
CounterNames ==
    <<"requests_total_counter", "responses_total_counter",
      "exceptions_total_counter", "status_codes_counter">>

(***************************************************************************)
(* Inputs: scopes, messages, errors, route tables.                         *)
(***************************************************************************)
Methods == {"GET", "POST"}
Paths == {"/users/42", "/users/me", "/metrics"}
RootPaths == {"", "/api"}
Apps == {"app1", "app2"}
Statuses == {200, 404}

\* scope.get("method") is None for a websocket scope; a lifespan scope and a
\* scope of any other kind carry neither method nor path.
HttpScopes ==
    [type : {"http"}, method : Methods, path : Paths,
     root_path : RootPaths, app : Apps \cup {None}]

WebsocketScopes ==
    [type : {"websocket"}, method : {None}, path : Paths,
     root_path : RootPaths, app : Apps \cup {None}]

LifespanScopes ==
    [type : {"lifespan"}, method : {None}, path : {""},
     root_path : {""}, app : Apps \cup {None}]

OtherScopes ==
    [type : {"other"}, method : {None}, path : {""},
     root_path : {""}, app : Apps \cup {None}]

Scopes == HttpScopes \cup WebsocketScopes \cup LifespanScopes \cup OtherScopes

\* The events of the concurrent specifications: a request that is counted, a
\* request for a path of EXCLUDE_PATHS, a websocket connection, the lifespan
\* event and an event of another kind, none carrying an application.
PlainScopes ==
    {s \in Scopes :
        /\ s.app = None
        /\ s.root_path = ""
        /\ s.type = "http" =>
               s.method = "GET" /\ s.path \in {"/users/42", "/metrics"}
        /\ s.type = "websocket" => s.path = "/users/42"}

\* Outbound ASGI messages; only "http.response.start" carries a status.
Messages ==
    [type : {"http.response.start"}, status : Statuses]
    \cup [type : {"http.response.body"}]

\* The messages of the traced specification: those above and the start of a
\* websocket denial response, which carries a status too.
WireMessages ==
    Messages
    \cup [type : {"websocket.http.response.start"}, status : {403}]

\* Errors a failing Counter.inc can raise.
IncErrors == {"TypeError"}

\* Errors that can arrive at the await of the next handler.  ValueError
\* derives from Exception; CancelledError (asyncio, Python >= 3.8), which the
\* host throws into a task it cancels, derives from BaseException only.
ExceptionErrors == {"ValueError"}
BaseOnlyErrors == {"CancelledError"}
Errors == ExceptionErrors \cup BaseOnlyErrors

\* Route table of the captured application (starlette_app.routes): for each
\* route its template, the request paths its pattern matches, the methods it
\* serves and the scope type it answers.
Routes ==
    [app1 |->
        << [path |-> "/users/me", pattern |-> {"/users/me"},
            methods |-> {"GET"}, type |-> "http"],
           [path |-> "/users/{id}", pattern |-> {"/users/me", "/users/42"},
            methods |-> {"GET", "POST"}, type |-> "http"],
           [path |-> "/metrics", pattern |-> {"/metrics"},
            methods |-> {"GET"}, type |-> "http"],
           [path |-> "/ws/{id}", pattern |-> {"/users/42"},
            methods |-> {None}, type |-> "websocket"] >>,
     app2 |->
        << [path |-> "/users/{user_id}",
            pattern |-> {"/users/me", "/users/42"},
            methods |-> {"GET"}, type |-> "http"] >>]

\* Match.NONE, Match.PARTIAL, Match.FULL
MatchNone == 0
MatchPartial == 1
MatchFull == 2

\* route.matches(scope): the pattern is matched against the request path; a
\* route whose pattern matches but whose methods do not include the request
\* method matches partially.
matches(route, scope) ==
    IF scope.type # route.type \/ scope.path \notin route.pattern
    THEN MatchNone
    ELSE IF scope.method \in route.methods THEN MatchFull ELSE MatchPartial

(***************************************************************************)
(* Counters and registry (aioprometheus.Counter, aioprometheus.Registry).  *)
(***************************************************************************)
\* A counter is a function from the label sets seen so far to their values.
Value(counter, labels) ==
    IF labels \in DOMAIN counter THEN counter[labels] ELSE 0

\* Counter.inc(labels)
Inc(counter, labels) ==
    IF labels \in DOMAIN counter
    THEN [counter EXCEPT ![labels] = @ + 1]
    ELSE counter @@ (labels :> 1)

\* The sum of the values of a counter over its label sets, and the label set
\* whose value differs between two states of a counter.
RECURSIVE SumOver(_, _)
SumOver(counter, D) ==
    IF D = {} THEN 0
    ELSE LET k == CHOOSE x \in D : TRUE
         IN  counter[k] + SumOver(counter, D \ {k})

Total(counter) == SumOver(counter, DOMAIN counter)

Changed(old, new) ==
    CHOOSE k \in DOMAIN new : Value(old, k) # new[k]

\* Registry.register(collector): a name already registered is rejected.
Register(reg, name) ==
    IF name \in reg
    THEN [ok |-> FALSE, registry |-> reg]
    ELSE [ok |-> TRUE, registry |-> reg \cup {name}]


(***************************************************************************)
(* Pure functions of the middleware.                                       *)
(***************************************************************************)
DigitChar == <<"0", "1", "2", "3", "4", "5", "6", "7", "8", "9">>

RECURSIVE Digits(_)
Digits(n) ==
    IF n < 10 THEN <<n>> ELSE Append(Digits(n \div 10), n % 10)

\* str(n) for a non-negative int: the sequence of its decimal characters.
str(n) == [k \in 1..Len(Digits(n)) |-> DigitChar[Digits(n)[k] + 1]]

RECURSIVE Join(_)
Join(chars) ==
    IF chars = <<>> THEN "" ELSE Head(chars) \o Join(Tail(chars))

\* A grouping by the last character of the status.
status_code_label_last(status, group_status_codes) ==
    LET status_code == str(status)
    IN  IF group_status_codes
        THEN status_code[Len(status_code)] \o "xx"
        ELSE Join(status_code)

\* wrapped_send: status_code = str(response["status"]);
\* f"{status_code[0]}xx" if self.group_status_codes else status_code
status_code_label(status, group_status_codes) ==
    LET status_code == str(status)
    IN  IF group_status_codes
        THEN status_code[1] \o "xx"
        ELSE Join(status_code)

\* except block: "5xx" if self.group_status_codes else "500"
failure_status_label(group_status_codes) ==
    IF group_status_codes THEN "5xx" ELSE "500"

\* A route search that takes a partial match too.
RECURSIVE first_matching_route(_, _, _)
first_matching_route(routes, scope, k) ==
    IF k > Len(routes) THEN None
    ELSE IF matches(routes[k], scope) >= MatchPartial THEN routes[k].path
    ELSE first_matching_route(routes, scope, k + 1)

\* for route in self.starlette_app.routes: the template of the first route,
\* from position k on, whose match is Match.FULL; None when there is none.
RECURSIVE first_full_route(_, _, _)
first_full_route(routes, scope, k) ==
    IF k > Len(routes) THEN None
    ELSE IF matches(routes[k], scope) = MatchFull THEN routes[k].path
    ELSE first_full_route(routes, scope, k + 1)

get_full_or_template_path(self, scope) ==
    LET full_path == scope.root_path \o scope.path
        template ==
            IF self.use_template_urls /\ self.starlette_app # None
            THEN first_full_route(Routes[self.starlette_app], scope, 1)
            ELSE None
    IN  IF template # None THEN template ELSE full_path

\* An exclusion test that excludes nothing.
is_excluded_never(self, path) == FALSE

\* path in self.exclude_paths
is_excluded(self, path) == path \in self.exclude_paths

\* except Exception: the clause catches instances of Exception only.
caught_by_except(e) == e \in ExceptionErrors

\* A capture that takes the application of every event that can carry one.
capture_app_overwrite(self, scope) ==
    IF scope.type \in {"lifespan", "http", "websocket"}
    THEN [self EXCEPT !.starlette_app = scope.app]
    ELSE self

\* if self.starlette_app is None: if scope["type"] in (...):
\*     self.starlette_app = scope.get("app")
capture_app(self, scope) ==
    IF self.starlette_app = None
       /\ scope.type \in {"lifespan", "http", "websocket"}
    THEN [self EXCEPT !.starlette_app = scope.app]
    ELSE self

\* create_metrics: the four Counter(...) constructors register their names
\* in order, from the k-th on; the first rejected registration raises and
\* leaves the earlier ones in the registry.  submitted is the number of
\* names handed to the registry.
RECURSIVE register_counters(_, _)
register_counters(reg, k) ==
    IF k > Len(CounterNames)
    THEN [ok |-> TRUE, registry |-> reg, submitted |-> k - 1]
    ELSE LET r == Register(reg, CounterNames[k])
         IN  IF r.ok
             THEN register_counters(r.registry, k + 1)
             ELSE [ok |-> FALSE, registry |-> reg, submitted |-> k]

create_metrics(reg) == register_counters(reg, 1)

(***************************************************************************)
(* State.                                                                  *)
(***************************************************************************)
VARIABLES
    mw,                     \* the middleware instances (self)
    registry,               \* names registered in the shared registry
    submitted,              \* per counter name, registrations handed to it
    requests_counter,
    responses_counter,
    exceptions_counter,
    status_codes_counter,
    calls,                  \* the invocations of __call__
    n_events,               \* the events delivered so far
    tracing                 \* whether the invocations keep their event log

vars ==
    <<mw, registry, submitted, requests_counter, responses_counter,
      exceptions_counter, status_codes_counter, calls, n_events,
      tracing>>

counters ==
    <<requests_counter, responses_counter, exceptions_counter,
      status_codes_counter>>

NoScope ==
    [type |-> None, method |-> None, path |-> "", root_path |-> "",
     app |-> None]

NoLabels == [method |-> None, path |-> ""]

\* An instance that has not been constructed.
NoInstance ==
    [constructed |-> FALSE, starlette_app |-> None, exclude_paths |-> {},
     use_template_urls |-> FALSE, group_status_codes |-> FALSE,
     metrics_created |-> FALSE, init_error |-> None]

\* Constructor arguments: exclude_paths, use_template_urls,
\* group_status_codes.
Configs ==
    [exclude_paths : {EXCLUDE_PATHS, {"/users/{id}"}},
     use_template_urls : BOOLEAN, group_status_codes : BOOLEAN]

\* The attributes __init__ sets.
init_self(cfg) ==
    [constructed |-> TRUE, starlette_app |-> None,
     exclude_paths |-> cfg.exclude_paths,
     use_template_urls |-> cfg.use_template_urls,
     group_status_codes |-> cfg.group_status_codes,
     metrics_created |-> FALSE, init_error |-> None]

\* A constructor that creates the metrics itself.
construct_eager(cfg, registry_arg, reg) ==
    LET cm == create_metrics(reg)
    IN  IF registry_arg # "Registry"
        THEN [self |-> [NoInstance EXCEPT !.init_error = "Exception"],
              registry |-> reg, submitted |-> 0]
        ELSE IF ~cm.ok
        THEN [self |-> [NoInstance EXCEPT !.init_error = "ValueError"],
              registry |-> cm.registry, submitted |-> cm.submitted]
        ELSE [self |-> [init_self(cfg) EXCEPT !.metrics_created = TRUE],
              registry |-> cm.registry, submitted |-> cm.submitted]

\* MetricsMiddleware.__init__: a registry argument that is no Registry makes
\* it raise; otherwise it sets the attributes and leaves the registry alone.
\* The result is the instance, the registry, and the number of counter names
\* handed to the registry.
construct(cfg, registry_arg, reg) ==
    IF registry_arg # "Registry"
    THEN [self |-> [NoInstance EXCEPT !.init_error = "Exception"],
          registry |-> reg, submitted |-> 0]
    ELSE [self |-> init_self(cfg), registry |-> reg, submitted |-> 0]

\* A log extended by the events of a piece of code.
Logged(log, events) == IF tracing THEN log \o events ELSE log

\* An invocation that has not started.  pc is the position of the invocation
\* and k, inside create_metrics, the statement it is at; send is the channel
\* handed to the next handler, in_try whether the await is the one inside the
\* try block.  The remaining fields record what the
\* invocation did: n_app the calls of the next handler, n_sent the messages
\* the handler sent, n_req, n_resp, n_exc the increments of the three counters,
\* stat_log the increments of status_codes_counter (where they were made, the
\* status they were made for and the label set that grew), raised the error
\* that arrived from the handler, error the error that left __call__,
\* cancelled whether the host cancelled the invocation, log the events of
\* the invocation in the order in which the code produces them (kept while
\* tracing).
IdleCall ==
    [pc |-> "idle", k |-> 0, inst |-> 0, scope |-> NoScope, send |-> None,
     in_try |-> FALSE, labels |-> NoLabels, n_app |-> 0, n_sent |-> 0,
     n_req |-> 0, n_resp |-> 0, n_exc |-> 0, stat_log |-> <<>>,
     raised |-> None, error |-> None, cancelled |-> FALSE, log |-> <<>>]

\* A dispatch that tests the literal request path for exclusion.
dispatch_literal_exclusion(self, scope) ==
    LET self1 == capture_app(self, scope)
        path == get_full_or_template_path(self1, scope)
        labels == [method |-> scope.method, path |-> path]
    IN  IF scope.type = "lifespan"
        THEN [self |-> self1, invoke |-> TRUE, send |-> "send",
              in_try |-> FALSE, labels |-> NoLabels, count |-> FALSE]
        ELSE IF scope.type \in {"http", "websocket"}
        THEN IF is_excluded(self1, scope.root_path \o scope.path)
             THEN [self |-> self1, invoke |-> TRUE, send |-> "send",
                   in_try |-> FALSE, labels |-> labels, count |-> FALSE]
             ELSE [self |-> self1, invoke |-> TRUE, send |-> "wrapped_send",
                   in_try |-> TRUE, labels |-> labels, count |-> TRUE]
        ELSE [self |-> self1, invoke |-> FALSE, send |-> None,
              in_try |-> FALSE, labels |-> NoLabels, count |-> FALSE]

\* A dispatch that treats the lifespan event as a request.
dispatch_lifespan_counted(self, scope) ==
    LET self1 == capture_app(self, scope)
        labels == [method |-> scope.method, path |-> scope.path]
    IN  IF scope.type \in {"lifespan", "http", "websocket"}
        THEN IF is_excluded(self1, labels.path)
             THEN [self |-> self1, invoke |-> TRUE, send |-> "send",
                   in_try |-> FALSE, labels |-> labels, count |-> FALSE]
             ELSE [self |-> self1, invoke |-> TRUE, send |-> "wrapped_send",
                   in_try |-> TRUE, labels |-> labels, count |-> TRUE]
        ELSE [self |-> self1, invoke |-> FALSE, send |-> None,
              in_try |-> FALSE, labels |-> NoLabels, count |-> FALSE]

(***************************************************************************)
(* __call__ from "if self.starlette_app is None" to the await of the next  *)
(* handler: what the invocation decides.                                   *)
(***************************************************************************)
dispatch(self, scope) ==
    LET self1 == capture_app(self, scope)
        method == scope.method
        path == get_full_or_template_path(self1, scope)
        labels == [method |-> method, path |-> path]
    IN  IF scope.type = "lifespan"
        THEN [self |-> self1, invoke |-> TRUE, send |-> "send",
              in_try |-> FALSE, labels |-> NoLabels, count |-> FALSE]
        ELSE IF scope.type \in {"http", "websocket"}
        THEN IF is_excluded(self1, path)
             THEN [self |-> self1, invoke |-> TRUE, send |-> "send",
                   in_try |-> FALSE, labels |-> labels, count |-> FALSE]
             ELSE [self |-> self1, invoke |-> TRUE, send |-> "wrapped_send",
                   in_try |-> TRUE, labels |-> labels, count |-> TRUE]
        ELSE [self |-> self1, invoke |-> FALSE, send |-> None,
              in_try |-> FALSE, labels |-> NoLabels, count |-> FALSE]

\* A requests counter that counts a label set once however often it is seen.
inc_requests_dedup(counter, labels) ==
    IF labels \in DOMAIN counter THEN counter ELSE Inc(counter, labels)

\* self.requests_counter.inc(labels)
inc_requests(counter, labels) == Inc(counter, labels)

\* An entry that calls the next handler before it counts the request.
entry_events_late(d) ==
    IF ~d.invoke THEN <<>>
    ELSE IF d.count
    THEN <<[ev |-> "app", send |-> d.send],
           [ev |-> "inc", counter |-> "requests"]>>
    ELSE <<[ev |-> "app", send |-> d.send]>>

\* The events of __call__ from the exclusion test to the await: the
\* increment of requests_counter for a request that is counted, then the
\* call of the next handler with the send channel it is given.
entry_events(d) ==
    IF ~d.invoke THEN <<>>
    ELSE IF d.count
    THEN <<[ev |-> "inc", counter |-> "requests"],
           [ev |-> "app", send |-> d.send]>>
    ELSE <<[ev |-> "app", send |-> d.send]>>

\* The invocation record after dispatch; n_req is the growth of
\* requests_counter.
dispatched(call, i, scope, d, n_req) ==
    [call EXCEPT !.pc = IF d.invoke THEN "handler" ELSE "returned",
                 !.inst = i,
                 !.scope = scope,
                 !.send = d.send,
                 !.in_try = d.in_try,
                 !.labels = d.labels,
                 !.n_app = IF d.invoke THEN 1 ELSE 0,
                 !.n_req = n_req,
                 !.log = Logged(<<>>, entry_events(d))]

\* The invocations start in the order of their ids.
NextIdle(c) ==
    /\ calls[c].pc = "idle"
    /\ \A b \in CallIds : b < c => calls[b].pc # "idle"

(***************************************************************************)
(* A host on one event loop: __call__ runs from its entry to the await of  *)
(* the next handler in one step.                                           *)
(***************************************************************************)
Call(c, i, scope) ==
    /\ NextIdle(c)
    /\ mw[i].constructed
    /\ LET cm == create_metrics(registry)
           create == ~mw[i].metrics_created
       IN  IF create /\ ~cm.ok
           THEN \* the registry rejects a registration: the error leaves
                \* __call__ and metrics_created stays False
                /\ registry' = cm.registry
                /\ submitted' =
                       [k \in DOMAIN submitted |->
                           submitted[k] + IF k <= cm.submitted THEN 1 ELSE 0]
                /\ calls' = [calls EXCEPT ![c] =
                       [@ EXCEPT !.pc = "raised", !.inst = i,
                                 !.scope = scope, !.error = "ValueError",
                                 !.log = Logged(<<>>,
                                     <<[ev |-> "raise",
                                        error |-> "ValueError"]>>)]]
                /\ n_events' = n_events + 1
                /\ UNCHANGED tracing
                /\ UNCHANGED <<mw, counters>>
           ELSE LET self0 == [mw[i] EXCEPT !.metrics_created = TRUE]
                    d == dispatch(self0, scope)
                IN  /\ registry' = IF create THEN cm.registry ELSE registry
                    /\ submitted' =
                           IF create
                           THEN [k \in DOMAIN submitted |-> submitted[k] + 1]
                           ELSE submitted
                    /\ mw' = [mw EXCEPT ![i] = d.self]
                    /\ requests_counter' =
                           IF d.count
                           THEN inc_requests(requests_counter, d.labels)
                           ELSE requests_counter
                    /\ calls' = [calls EXCEPT ![c] =
                           dispatched(@, i, scope, d,
                               Total(requests_counter')
                                   - Total(requests_counter))]
                    /\ n_events' = n_events + 1
                    /\ UNCHANGED tracing
                    /\ UNCHANGED <<responses_counter, exceptions_counter,
                                   status_codes_counter>>

(***************************************************************************)
(* A host that calls the instance from several threads: the test of        *)
(* metrics_created, each statement of create_metrics and the rest of       *)
(* __call__ are steps of their own.  Counter.inc is atomic.                *)
(***************************************************************************)
\* if not self.metrics_created:
ThreadEnter(c, i, scope) ==
    /\ NextIdle(c)
    /\ mw[i].constructed
    /\ calls' = [calls EXCEPT ![c] =
           [@ EXCEPT !.pc = IF mw[i].metrics_created
                            THEN "dispatch" ELSE "create",
                     !.k = IF mw[i].metrics_created THEN 0 ELSE 1,
                     !.inst = i,
                     !.scope = scope]]
    /\ n_events' = n_events + 1
    /\ UNCHANGED tracing
    /\ UNCHANGED <<mw, registry, submitted, counters>>

\* create_metrics: the k-th Counter(...) constructor, then
\* self.metrics_created = True.
ThreadCreate(c) ==
    /\ calls[c].pc = "create"
    /\ LET k == calls[c].k
       IN  IF k <= Len(CounterNames)
           THEN LET r == Register(registry, CounterNames[k])
                IN  /\ registry' = r.registry
                    /\ submitted' = [submitted EXCEPT ![k] = @ + 1]
                    /\ calls' = [calls EXCEPT ![c] =
                           IF r.ok
                           THEN [@ EXCEPT !.k = k + 1]
                           ELSE [@ EXCEPT !.pc = "raised",
                                          !.error = "ValueError"]]
                    /\ UNCHANGED mw
           ELSE /\ mw' = [mw EXCEPT ![calls[c].inst].metrics_created = TRUE]
                /\ calls' = [calls EXCEPT ![c] =
                       [@ EXCEPT !.pc = "dispatch", !.k = 0]]
                /\ UNCHANGED <<registry, submitted>>
    /\ UNCHANGED <<counters, n_events, tracing>>

\* The rest of __call__, up to the await of the next handler.
ThreadDispatch(c) ==
    /\ calls[c].pc = "dispatch"
    /\ LET i == calls[c].inst
           d == dispatch(mw[i], calls[c].scope)
       IN  /\ mw' = [mw EXCEPT ![i] = d.self]
           /\ requests_counter' =
                  IF d.count
                  THEN inc_requests(requests_counter, d.labels)
                  ELSE requests_counter
           /\ calls' = [calls EXCEPT ![c] =
                  dispatched(@, i, calls[c].scope, d,
                      Total(requests_counter') - Total(requests_counter))]
    /\ UNCHANGED <<registry, submitted, responses_counter,
                   exceptions_counter, status_codes_counter, n_events, tracing>>

(***************************************************************************)
(* Construction of the instances.                                          *)
(***************************************************************************)
\* MetricsMiddleware(app, registry=registry_arg, ...); the instances are
\* constructed in the order of their ids.
Construct(i, cfg, registry_arg) ==
    /\ ~mw[i].constructed
    /\ mw[i].init_error = None
    /\ \A j \in Instances : j < i => mw[j] # NoInstance
    /\ LET r == construct(cfg, registry_arg, registry)
       IN  /\ mw' = [mw EXCEPT ![i] = r.self]
           /\ registry' = r.registry
           /\ submitted' =
                  [k \in DOMAIN submitted |->
                      submitted[k] + IF k <= r.submitted THEN 1 ELSE 0]
    /\ UNCHANGED <<counters, calls, n_events, tracing>>

(***************************************************************************)
(* The next handler, while the invocation is suspended in it.              *)
(***************************************************************************)
\* wrapped_send(response): the increments made for "http.response.start".
wrapped_send_status(counter, self, labels, response) ==
    Inc(counter,
        [method |-> labels.method, path |-> labels.path,
         status_code |->
             status_code_label(response.status, self.group_status_codes)])

wrapped_send_responses(counter, labels) == Inc(counter, labels)

\* A test that takes every message with a status for a response start.
is_response_start_any(response) == "status" \in DOMAIN response

\* if response["type"] == "http.response.start":
is_response_start(response) == response.type = "http.response.start"

\* A wrapped_send that forwards response starts only.
wrapped_send_events_swallow(response) ==
    <<[ev |-> "recv", msg |-> response]>>
    \o (IF is_response_start(response)
        THEN <<[ev |-> "inc", counter |-> "status_codes"],
               [ev |-> "inc", counter |-> "responses"],
               [ev |-> "send", msg |-> response]>>
        ELSE <<>>)

\* The events of wrapped_send(response): the call, the two increments when
\* the message is a response start, then send(response).
wrapped_send_events(response) ==
    <<[ev |-> "recv", msg |-> response]>>
    \o (IF is_response_start(response)
        THEN <<[ev |-> "inc", counter |-> "status_codes"],
               [ev |-> "inc", counter |-> "responses"]>>
        ELSE <<>>)
    \o <<[ev |-> "send", msg |-> response]>>

\* The handler calls the send channel it was given; a call of the original
\* send does not pass through the middleware.
Send(c, response) ==
    /\ calls[c].pc = "handler"
    /\ LET call == calls[c]
           self == mw[call.inst]
           counted == call.send = "wrapped_send"
                      /\ is_response_start(response)
       IN  /\ status_codes_counter' =
                  IF counted
                  THEN wrapped_send_status(status_codes_counter, self,
                                           call.labels, response)
                  ELSE status_codes_counter
           /\ responses_counter' =
                  IF counted
                  THEN wrapped_send_responses(responses_counter, call.labels)
                  ELSE responses_counter
           /\ calls' = [calls EXCEPT ![c] =
                  [@ EXCEPT !.n_sent = @ + 1,
                            !.log = IF call.send = "wrapped_send"
                                    THEN Logged(@,
                                             wrapped_send_events(response))
                                    ELSE @,
                            !.n_resp = @ + Total(responses_counter')
                                           - Total(responses_counter),
                            !.stat_log =
                                IF status_codes_counter'
                                       # status_codes_counter
                                THEN Append(@,
                                    [src |-> "send",
                                     status |-> response.status,
                                     labels |-> Changed(status_codes_counter,
                                                    status_codes_counter')])
                                ELSE @]]
    /\ UNCHANGED <<mw, registry, submitted, requests_counter,
                   exceptions_counter, n_events, tracing>>

HandlerSend(c, response) ==
    /\ calls[c].n_sent < MaxSends
    /\ Send(c, response)

\* The handler returns: so does __call__.
HandlerReturn(c) ==
    /\ calls[c].pc = "handler"
    /\ calls' = [calls EXCEPT ![c] =
           [@ EXCEPT !.pc = "returned",
                     !.log = Logged(@, <<[ev |-> "return"]>>)]]
    /\ UNCHANGED <<mw, registry, submitted, counters, n_events, tracing>>

\* The except block.
failure_exceptions(counter, labels) == Inc(counter, labels)

failure_status(counter, self, labels) ==
    Inc(counter,
        [method |-> labels.method, path |-> labels.path,
         status_code |-> failure_status_label(self.group_status_codes)])

\* An except block that leaves responses_counter as it is.
failure_responses_skip(counter, labels) == counter

failure_responses(counter, labels) == Inc(counter, labels)

\* The events of the except block for an error it catches: the three
\* increments, then raise; an error it does not catch leaves __call__ as it
\* is.
except_events(e, caught) ==
    IF caught
    THEN <<[ev |-> "inc", counter |-> "exceptions"],
           [ev |-> "inc", counter |-> "status_codes"],
           [ev |-> "inc", counter |-> "responses"],
           [ev |-> "raise", error |-> e]>>
    ELSE <<[ev |-> "raise", error |-> e]>>

\* Error e arrives at the await of the next handler.
Propagate(c, e, by_host) ==
    LET call == calls[c]
        self == mw[call.inst]
        caught == call.in_try /\ caught_by_except(e)
    IN  /\ exceptions_counter' =
               IF caught
               THEN failure_exceptions(exceptions_counter, call.labels)
               ELSE exceptions_counter
        /\ status_codes_counter' =
               IF caught
               THEN failure_status(status_codes_counter, self, call.labels)
               ELSE status_codes_counter
        /\ responses_counter' =
               IF caught
               THEN failure_responses(responses_counter, call.labels)
               ELSE responses_counter
        /\ calls' = [calls EXCEPT ![c] =
               [@ EXCEPT !.pc = "raised",
                         !.raised = e,
                         !.error = e,
                         !.cancelled = by_host,
                         !.log = Logged(@,
                                     <<[ev |-> "raised", error |-> e]>>
                                     \o except_events(e, caught)),
                         !.n_exc = @ + Total(exceptions_counter')
                                     - Total(exceptions_counter),
                         !.n_resp = @ + Total(responses_counter')
                                      - Total(responses_counter),
                         !.stat_log =
                             IF status_codes_counter' # status_codes_counter
                             THEN Append(@,
                                 [src |-> "except", status |-> 500,
                                  labels |-> Changed(status_codes_counter,
                                                 status_codes_counter')])
                             ELSE @]]
        /\ UNCHANGED <<mw, registry, submitted, requests_counter, n_events,
                       tracing>>

\* The handler raises e.
HandlerRaise(c, e) ==
    /\ calls[c].pc = "handler"
    /\ Propagate(c, e, FALSE)

\* The handler raises e and the k-th increment of the except block raises
\* itself (1: exceptions_counter.inc, 2: status_codes_counter.inc,
\* 3: responses_counter.inc): the increments before it are made, the
\* statements after it, `raise` included, are not reached, and the error of
\* the increment leaves __call__ in place of e.
IncFails(c, e, k, inc_error) ==
    LET call == calls[c]
        self == mw[call.inst]
    IN  /\ call.pc = "handler"
        /\ call.in_try
        /\ caught_by_except(e)
        /\ exceptions_counter' =
               IF k > 1
               THEN failure_exceptions(exceptions_counter, call.labels)
               ELSE exceptions_counter
        /\ status_codes_counter' =
               IF k > 2
               THEN failure_status(status_codes_counter, self, call.labels)
               ELSE status_codes_counter
        /\ UNCHANGED responses_counter
        /\ calls' = [calls EXCEPT ![c] =
               [@ EXCEPT !.pc = "raised",
                         !.raised = e,
                         !.error = inc_error,
                         !.n_exc = IF k > 1 THEN @ + 1 ELSE @,
                         !.stat_log =
                             IF k > 2
                             THEN Append(@,
                                      [src |-> "except",
                                       status |->
                                           failure_status_label(
                                               self.group_status_codes),
                                       labels |-> call.labels])
                             ELSE @,
                         !.log = Logged(@,
                                     <<[ev |-> "raised", error |-> e],
                                       [ev |-> "raise",
                                        error |-> inc_error]>>)]]
        /\ UNCHANGED <<mw, registry, submitted, requests_counter, n_events,
                       tracing>>

\* The caller has seen the invocation end; its record is dropped.
Retire(c) ==
    /\ calls[c].pc \in {"returned", "raised"}
    /\ calls' = [calls EXCEPT ![c] = IdleCall]
    /\ UNCHANGED <<mw, registry, submitted, counters, n_events, tracing>>

\* The host cancels the task while it is suspended in the handler:
\* CancelledError is thrown at the await.
Cancel(c) ==
    /\ calls[c].pc = "handler"
    /\ Propagate(c, "CancelledError", TRUE)

(***************************************************************************)
(* One middleware instance serving concurrent events on one event loop.    *)
(***************************************************************************)
InitCommon ==
    /\ registry = {}
    /\ submitted = [k \in 1..Len(CounterNames) |-> 0]
    /\ requests_counter = <<>>
    /\ responses_counter = <<>>
    /\ exceptions_counter = <<>>
    /\ status_codes_counter = <<>>
    /\ calls = [c \in CallIds |-> IdleCall]
    /\ n_events = 0
    /\ tracing = FALSE

\* The default exclude_paths and use_template_urls, either value of
\* group_status_codes.
DefaultConfigs ==
    {cfg \in Configs :
        cfg.exclude_paths = EXCLUDE_PATHS /\ cfg.use_template_urls}

Init ==
    /\ InitCommon
    /\ \E cfg \in DefaultConfigs :
           mw = [i \in Instances |->
                    IF i = 1 THEN init_self(cfg) ELSE NoInstance]

Next ==
    \/ \E c \in CallIds, scope \in PlainScopes : Call(c, 1, scope)
    \/ \E c \in CallIds, response \in Messages : HandlerSend(c, response)
    \/ \E c \in CallIds : HandlerReturn(c)
    \/ \E c \in CallIds, e \in ExceptionErrors : HandlerRaise(c, e)
    \/ \E c \in CallIds : Cancel(c)

Spec == Init /\ [][Next]_vars

(***************************************************************************)
(* One middleware instance, any configuration, any scope; the events are   *)
(* handled one after the other and the handler returns.                    *)
(***************************************************************************)
InitPaths ==
    /\ InitCommon
    /\ \E cfg \in Configs :
           mw = [i \in Instances |->
                    IF i = 1 THEN init_self(cfg) ELSE NoInstance]

NextPaths ==
    \/ \E scope \in Scopes : n_events < MaxEvents /\ Call(1, 1, scope)
    \/ HandlerReturn(1)
    \/ Retire(1)

SpecPaths == InitPaths /\ [][NextPaths]_vars

(***************************************************************************)
(* One middleware instance called from several threads.                    *)
(***************************************************************************)
NextThreads ==
    \/ \E c \in CallIds, scope \in PlainScopes : ThreadEnter(c, 1, scope)
    \/ \E c \in CallIds : ThreadCreate(c)
    \/ \E c \in CallIds : ThreadDispatch(c)
    \/ \E c \in CallIds, response \in Messages : HandlerSend(c, response)
    \/ \E c \in CallIds : HandlerReturn(c)
    \/ \E c \in CallIds, e \in ExceptionErrors : HandlerRaise(c, e)
    \/ \E c \in CallIds : Cancel(c)

SpecThreads == Init /\ [][NextThreads]_vars

(***************************************************************************)
(* Several instances constructed against the same registry (a framework    *)
(* that rebuilds its middleware stack); the events are handled one after   *)
(* the other.                                                              *)
(***************************************************************************)
InitMulti ==
    /\ InitCommon
    /\ mw = [i \in Instances |-> NoInstance]

NextMulti ==
    \/ \E i \in Instances, cfg \in DefaultConfigs,
          registry_arg \in {"Registry", "dict"} :
              Construct(i, cfg, registry_arg)
    \/ \E i \in Instances, scope \in PlainScopes :
          n_events < MaxEvents /\ Call(1, i, scope)
    \/ HandlerReturn(1)
    \/ \E e \in ExceptionErrors : HandlerRaise(1, e)
    \/ Retire(1)

SpecMulti == InitMulti /\ [][NextMulti]_vars

(***************************************************************************)
(* One middleware instance whose invocations keep their event log; the     *)
(* events are handled one after the other and the handler may send         *)
(* several messages.                                                       *)
(***************************************************************************)
InitWire ==
    /\ registry = {}
    /\ submitted = [k \in 1..Len(CounterNames) |-> 0]
    /\ requests_counter = <<>>
    /\ responses_counter = <<>>
    /\ exceptions_counter = <<>>
    /\ status_codes_counter = <<>>
    /\ calls = [c \in CallIds |-> IdleCall]
    /\ n_events = 0
    /\ tracing = TRUE
    /\ \E cfg \in DefaultConfigs :
           mw = [i \in Instances |->
                    IF i = 1 THEN init_self(cfg) ELSE NoInstance]

NextWire ==
    \/ \E scope \in PlainScopes : n_events < MaxEvents /\ Call(1, 1, scope)
    \/ \E response \in WireMessages :
          calls[1].n_sent < MaxWireSends /\ Send(1, response)
    \/ HandlerReturn(1)
    \/ \E e \in ExceptionErrors : HandlerRaise(1, e)
    \/ Cancel(1)
    \/ Retire(1)

SpecWire == InitWire /\ [][NextWire]_vars

(***************************************************************************)
(* One middleware instance, events handled one after the other, whose      *)
(* counters can fail to increment while the except block runs.             *)
(***************************************************************************)
NextFaults ==
    \/ \E scope \in PlainScopes : n_events < MaxEvents /\ Call(1, 1, scope)
    \/ \E response \in Messages : HandlerSend(1, response)
    \/ HandlerReturn(1)
    \/ \E e \in ExceptionErrors : HandlerRaise(1, e)
    \/ \E e \in ExceptionErrors, k \in 1..3, inc_error \in IncErrors :
          IncFails(1, e, k, inc_error)
    \/ Retire(1)

SpecFaults == Init /\ [][NextFaults]_vars

(***************************************************************************)
(* One middleware instance on a registry in which another component may    *)
(* have registered a collector under one of the four names.                *)
(***************************************************************************)
InitRejected ==
    /\ \E foreign \in SUBSET {CounterNames[k] : k \in DOMAIN CounterNames} :
           /\ Cardinality(foreign) <= 1
           /\ registry = foreign
    /\ submitted = [k \in 1..Len(CounterNames) |-> 0]
    /\ requests_counter = <<>>
    /\ responses_counter = <<>>
    /\ exceptions_counter = <<>>
    /\ status_codes_counter = <<>>
    /\ calls = [c \in CallIds |-> IdleCall]
    /\ n_events = 0
    /\ tracing = FALSE
    /\ \E cfg \in DefaultConfigs :
           mw = [i \in Instances |->
                    IF i = 1 THEN init_self(cfg) ELSE NoInstance]

NextRejected ==
    \/ \E scope \in PlainScopes : n_events < MaxEvents /\ Call(1, 1, scope)
    \/ \E response \in Messages : HandlerSend(1, response)
    \/ HandlerReturn(1)
    \/ \E e \in ExceptionErrors : HandlerRaise(1, e)
    \/ Retire(1)

SpecRejected == InitRejected /\ [][NextRejected]_vars

(***************************************************************************)
(* Properties.                                                             *)
(***************************************************************************)
Ended(c) == calls[c].pc \in {"returned", "raised"}

\* The invocation ended in create_metrics, with the registry's error.
CreationFailed(call) == call.pc = "raised" /\ call.raised = None

\* The invocation handles an http or websocket event.
Request(c) ==
    /\ calls[c].pc \notin {"idle", "check", "create", "dispatch"}
    /\ calls[c].scope.type \in {"http", "websocket"}
    /\ calls[c].n_app = 1

\* The request's classified path is in, or is not in, the exclusion set.
ExcludedRequest(c) ==
    Request(c) /\ calls[c].labels.path \in mw[calls[c].inst].exclude_paths

CountedRequest(c) ==
    Request(c) /\ calls[c].labels.path \notin mw[calls[c].inst].exclude_paths

\* The response-start messages the handler of c has emitted through
\* wrapped_send.
Starts(c) ==
    Cardinality({k \in DOMAIN calls[c].stat_log :
                    calls[c].stat_log[k].src = "send"})

\* C1: requests_total{method,path} equals the number of non-excluded requests
\* with that method and path that have entered the middleware, in every
\* state, whatever their handlers have done since.
C1_RequestsOncePerRequest ==
    \A labels \in DOMAIN requests_counter
                  \cup {calls[c].labels : c \in CallIds} :
        Value(requests_counter, labels) =
            Cardinality({c \in CallIds :
                            CountedRequest(c) /\ calls[c].labels = labels})

\* Two requests with the same method and path have entered, one has returned
\* and the other has raised, and their counter stands at 2.
C1_Witness ==
    \E c1, c2 \in CallIds :
        /\ c1 # c2
        /\ CountedRequest(c1) /\ CountedRequest(c2)
        /\ calls[c1].labels = calls[c2].labels
        /\ calls[c1].pc = "returned" /\ calls[c2].pc = "raised"
        /\ Value(requests_counter, calls[c1].labels) = 2

\* C2: when the invocation of a non-excluded request ends after its handler
\* emitted a response start, raised, or did both, responses_total has been
\* incremented exactly once and status_codes_total exactly once for it.
C2_ExactlyOneResponse ==
    \A c \in CallIds :
        (/\ CountedRequest(c)
         /\ Ended(c)
         /\ ~calls[c].cancelled
         /\ Starts(c) >= 1 \/ calls[c].raised # None)
        => /\ calls[c].n_resp = 1
           /\ Len(calls[c].stat_log) = 1

\* C3: when the handler of a non-excluded request raises, exceptions_total
\* and responses_total have each grown by 1 for the request,
\* status_codes_total has grown by 1 under "500" ("5xx" when grouped), and
\* the error that leaves the middleware is the error the handler raised.
C3_FailureAccounting ==
    \A c \in CallIds :
        (/\ CountedRequest(c)
         /\ calls[c].pc = "raised"
         /\ ~calls[c].cancelled)
        => /\ calls[c].n_exc = 1
           /\ calls[c].n_resp = 1
           /\ Cardinality({k \in DOMAIN calls[c].stat_log :
                  calls[c].stat_log[k].labels =
                      [method |-> calls[c].labels.method,
                       path |-> calls[c].labels.path,
                       status_code |->
                           IF mw[calls[c].inst].group_status_codes
                           THEN "5xx" ELSE "500"]}) = 1
           /\ calls[c].error = calls[c].raised

\* C4: when the host cancels a non-excluded request that is suspended in the
\* handler before any response start, exceptions_total, status_codes_total
\* (500 / 5xx) and responses_total have each been incremented for it by the
\* time the cancellation has left the middleware.
C4_CancellationAccounted ==
    \A c \in CallIds :
        (/\ CountedRequest(c)
         /\ calls[c].cancelled
         /\ Starts(c) = 0)
        => /\ calls[c].n_exc = 1
           /\ calls[c].n_resp = 1
           /\ Len(calls[c].stat_log) = 1

\* C5: a step of a request whose path is in the exclusion set changes none of
\* the four counters, and the request's handler is invoked once with the
\* original send channel.
C5_ExcludedUntouched ==
    [][\A c \in CallIds :
          (/\ calls'[c] # calls[c]
           /\ calls'[c].pc # "idle"
           /\ calls'[c].scope.type \in {"http", "websocket"}
           /\ ~CreationFailed(calls'[c])
           /\ get_full_or_template_path(mw'[calls'[c].inst], calls'[c].scope)
                  \in mw'[calls'[c].inst].exclude_paths)
          => /\ counters' = counters
             /\ calls'[c].n_app = 1
             /\ calls'[c].send = "send"]_vars

\* An excluded request whose handler emitted a response start and raised,
\* while a counted request has been recorded.
C5_Witness ==
    \E c, b \in CallIds :
        /\ ExcludedRequest(c)
        /\ calls[c].n_sent = 1
        /\ calls[c].raised = "ValueError"
        /\ calls[c].send = "send"
        /\ CountedRequest(b)
        /\ Total(requests_counter) = 1

\* The four counter names.
AllCounterNames == {CounterNames[k] : k \in DOMAIN CounterNames}

SomeCounterIncremented ==
    \/ requests_counter # <<>>
    \/ responses_counter # <<>>
    \/ exceptions_counter # <<>>
    \/ status_codes_counter # <<>>

\* C6: for one instance, under any interleaving of concurrent first
\* invocations, each of the four counters is handed to the registry at most
\* once, and no counter is incremented before the four counters exist.
C6_RegisteredOnce ==
    /\ \A k \in DOMAIN submitted : submitted[k] <= 1
    /\ SomeCounterIncremented => registry = AllCounterNames

\* C7: constructing the middleware registers nothing and raises no
\* registration error, so the registry holds none of the four counters
\* before the first inbound event; an instance's metrics are created only in
\* a step in which that instance starts handling an event.
C7_ConstructionRegistersNothing ==
    /\ [](n_events = 0 => registry = {})
    /\ [][/\ n_events' = n_events =>
               /\ registry' = registry
               /\ submitted' = submitted
               /\ \A i \in Instances :
                      /\ mw'[i].metrics_created = mw[i].metrics_created
                      /\ mw'[i].init_error # "ValueError"
          /\ \A i \in Instances :
                 (mw'[i].metrics_created /\ ~mw[i].metrics_created) =>
                     \E c \in CallIds :
                         /\ calls[c].pc = "idle"
                         /\ calls'[c].pc # "idle"
                         /\ calls'[c].inst = i]_vars

\* Two instances have been constructed against the registry, no event has
\* arrived, and nothing has been handed to the registry.
C7_Witness ==
    /\ \A i \in Instances : mw[i].constructed
    /\ Cardinality(Instances) >= 2
    /\ n_events = 0
    /\ registry = {}
    /\ \A k \in DOMAIN submitted : submitted[k] = 0

\* C8: whatever instances are constructed against the registry and whatever
\* events they receive, each counter name is handed to the registry at most
\* once and no event ends with the registry's duplicate error.
C8_NoDuplicateRegistration ==
    /\ \A k \in DOMAIN submitted : submitted[k] <= 1
    /\ \A c \in CallIds : ~CreationFailed(calls[c])

\* The first decimal digit of a status.
LeadingDigit(n) ==
    CHOOSE d \in 1..9 : \E k \in 0..5 : n \div (10 ^ k) = d

\* C9: the status_code label of an increment made for a response start is
\* the decimal string of the emitted status, or its first digit followed by
\* "xx" when group_status_codes is set; method and path are those of the
\* request's requests_total increment.
C9_StatusLabel ==
    \A c \in CallIds :
        \A k \in DOMAIN calls[c].stat_log :
            LET entry == calls[c].stat_log[k]
            IN  entry.src = "send" =>
                /\ entry.labels.status_code =
                       IF mw[calls[c].inst].group_status_codes
                       THEN ToString(LeadingDigit(entry.status)) \o "xx"
                       ELSE ToString(entry.status)
                /\ entry.labels.method = calls[c].labels.method
                /\ entry.labels.path = calls[c].labels.path
                /\ Value(requests_counter, calls[c].labels) >= 1

\* A 404 was counted under "4xx" and a 200 under "2xx".
C9_Witness ==
    /\ mw[1].group_status_codes
    /\ \E c1, c2 \in CallIds :
           /\ calls[c1].stat_log # <<>> /\ calls[c2].stat_log # <<>>
           /\ calls[c1].stat_log[1].status = 404
           /\ calls[c1].stat_log[1].labels.status_code = "4xx"
           /\ calls[c2].stat_log[1].status = 200
           /\ calls[c2].stat_log[1].labels.status_code = "2xx"

\* The positions of the routes of the captured application that match the
\* scope in full.
FullMatches(self, scope) ==
    IF self.starlette_app = None THEN {}
    ELSE {k \in DOMAIN Routes[self.starlette_app] :
             matches(Routes[self.starlette_app][k], scope) = MatchFull}

\* C10: the path label of a request is root_path + path, unless
\* use_template_urls is set, an application is captured and some route
\* matches in full: then it is the template of the first such route.
C10_PathLabel ==
    \A c \in CallIds :
        Request(c) =>
            LET self == mw[calls[c].inst]
                scope == calls[c].scope
                full == FullMatches(self, scope)
                expected ==
                    IF self.use_template_urls /\ full # {}
                    THEN Routes[self.starlette_app]
                             [CHOOSE k \in full :
                                  \A j \in full : k <= j].path
                    ELSE scope.root_path \o scope.path
            IN  /\ calls[c].labels.path = expected
                /\ CountedRequest(c) =>
                       Value(requests_counter,
                             [method |-> scope.method, path |-> expected]) >= 1

\* POST /users/me: the first route matches it partially only, the second in
\* full, and the label is the template of the second.
C10_Witness ==
    \E c \in CallIds :
        /\ CountedRequest(c)
        /\ calls[c].scope.method = "POST"
        /\ calls[c].scope.path = "/users/me"
        /\ matches(Routes["app1"][1], calls[c].scope) = MatchPartial
        /\ calls[c].labels.path = "/users/{id}"
        /\ Value(requests_counter,
                 [method |-> "POST", path |-> "/users/{id}"]) = 1

\* The messages the handler of c handed to wrapped_send, and the messages
\* wrapped_send handed to the original send, in the order of the log.
IsRecv(entry) == entry.ev = "recv"

IsSend(entry) == entry.ev = "send"

Received(c) == SelectSeq(calls[c].log, IsRecv)

Forwarded(c) == SelectSeq(calls[c].log, IsSend)

\* C11: the messages a handler sends through wrapped_send are forwarded to
\* the original send once each, unchanged and in the order in which they
\* were sent, each before the handler can send the next.
C11_ForwardedInOrder ==
    \A c \in CallIds :
        calls[c].send = "wrapped_send" =>
            /\ Len(Received(c)) = calls[c].n_sent
            /\ Len(Forwarded(c)) = Len(Received(c))
            /\ \A k \in DOMAIN Received(c) :
                   Forwarded(c)[k].msg = Received(c)[k].msg
            /\ \A k \in DOMAIN calls[c].log :
                   calls[c].log[k].ev = "recv" =>
                       \E j \in DOMAIN calls[c].log :
                           /\ j > k
                           /\ calls[c].log[j] =
                                  [ev |-> "send", msg |-> calls[c].log[k].msg]
                           /\ \A m \in (k + 1)..(j - 1) :
                                  calls[c].log[m].ev \notin {"recv", "send"}

\* A handler sent a response body and then a response start through
\* wrapped_send, and both went out in that order.
C11_Witness ==
    \E c \in CallIds :
        /\ calls[c].send = "wrapped_send"
        /\ Len(Forwarded(c)) = 2
        /\ Forwarded(c)[1].msg = [type |-> "http.response.body"]
        /\ Forwarded(c)[2].msg =
               [type |-> "http.response.start", status |-> 404]

IncOf(name) == [ev |-> "inc", counter |-> name]

\* C12: in the log of an invocation the increment of requests_total comes
\* before the call of the next handler; a response start handed to
\* wrapped_send is followed by the increments of status_codes_total and
\* responses_total and then by its forwarding; an error the except block
\* catches is followed by the increments of exceptions_total,
\* status_codes_total and responses_total, in that order, and then leaves.
C12_Ordering ==
    \A c \in CallIds :
        LET log == calls[c].log
        IN  /\ CountedRequest(c) =>
                   /\ Len(log) >= 2
                   /\ log[1] = IncOf("requests")
                   /\ log[2] = [ev |-> "app", send |-> "wrapped_send"]
            /\ \A k \in DOMAIN log :
                   /\ (log[k].ev = "recv"
                       /\ log[k].msg.type = "http.response.start") =>
                          /\ Len(log) >= k + 3
                          /\ log[k + 1] = IncOf("status_codes")
                          /\ log[k + 2] = IncOf("responses")
                          /\ log[k + 3] = [ev |-> "send", msg |-> log[k].msg]
                   /\ (log[k].ev = "raised" /\ calls[c].in_try
                       /\ log[k].error \in ExceptionErrors) =>
                          /\ Len(log) = k + 4
                          /\ log[k + 1] = IncOf("exceptions")
                          /\ log[k + 2] = IncOf("status_codes")
                          /\ log[k + 3] = IncOf("responses")
                          /\ log[k + 4] =
                                 [ev |-> "raise", error |-> log[k].error]
                   /\ (log[k].ev = "inc" /\ k > 1) =>
                          \E j \in 1..(k - 1) :
                              log[j].ev \in {"recv", "raised"}

\* A request was counted, its handler was called, sent a response start that
\* was counted and forwarded, and raised an error that was counted and left.
C12_Witness ==
    \E c \in CallIds :
        calls[c].log =
            << IncOf("requests"),
               [ev |-> "app", send |-> "wrapped_send"],
               [ev |-> "recv",
                msg |-> [type |-> "http.response.start", status |-> 200]],
               IncOf("status_codes"),
               IncOf("responses"),
               [ev |-> "send",
                msg |-> [type |-> "http.response.start", status |-> 200]],
               [ev |-> "raised", error |-> "ValueError"],
               IncOf("exceptions"),
               IncOf("status_codes"),
               IncOf("responses"),
               [ev |-> "raise", error |-> "ValueError"] >>

\* C15: when the handler of a non-excluded request returns without having
\* sent "http.response.start" and without raising, the request has
\* incremented requests_total once and no other counter.
C15_OnlyRequestCounted ==
    \A c \in CallIds :
        (/\ CountedRequest(c)
         /\ calls[c].pc = "returned"
         /\ \A k \in DOMAIN Received(c) :
                Received(c)[k].msg.type # "http.response.start")
        => /\ calls[c].n_req = 1
           /\ calls[c].n_resp = 0
           /\ calls[c].n_exc = 0
           /\ calls[c].stat_log = <<>>
           /\ n_events = 1 =>
                  /\ Total(requests_counter) = 1
                  /\ responses_counter = <<>>
                  /\ exceptions_counter = <<>>
                  /\ status_codes_counter = <<>>

\* A websocket connection whose handler sent the start of a denial response
\* and returned, with requests_total at 1.
C15_Witness ==
    \E c \in CallIds :
        /\ CountedRequest(c)
        /\ calls[c].scope.type = "websocket"
        /\ calls[c].pc = "returned"
        /\ calls[c].n_sent = 1
        /\ Received(c)[1].msg.type = "websocket.http.response.start"
        /\ Total(requests_counter) = 1
        /\ responses_counter = <<>>

\* C13: when the handler raised E and __call__ has ended with an error, the
\* error that reached the caller is E, also when an increment of the except
\* block failed.
C13_OriginalErrorPropagates ==
    \A c \in CallIds :
        (calls[c].pc = "raised" /\ calls[c].raised # None) =>
            calls[c].error = calls[c].raised

\* C14: a registration the registry rejects on the first event ends that
\* invocation with the error, without a call of the next handler and
\* without an increment, and no name is handed to the registry a second
\* time by a later event.
C14_RejectionNotRetried ==
    /\ \A c \in CallIds :
           CreationFailed(calls[c]) =>
               /\ calls[c].error = "ValueError"
               /\ calls[c].n_app = 0
               /\ calls[c].n_req = 0
    /\ (\A i \in Instances : ~mw[i].metrics_created) =>
           \A c \in CallIds : calls[c].pc \in {"idle", "raised"}
    /\ \A k \in DOMAIN submitted : submitted[k] <= 1

\* The fields of an instance a lifespan event may not change.
Settings(self) ==
    [exclude_paths |-> self.exclude_paths,
     use_template_urls |-> self.use_template_urls,
     group_status_codes |-> self.group_status_codes,
     constructed |-> self.constructed,
     init_error |-> self.init_error]

\* C16: a step of the invocation for a lifespan event, from its entry to its
\* end by return, error or cancellation, leaves the four counters as they
\* are and changes nothing of the instance but metrics_created and
\* starlette_app; from its entry on the next handler has been called once,
\* with the send channel the middleware was given.
C16_LifespanPassThrough ==
    [][\A c \in CallIds :
          (calls'[c] # calls[c] /\ calls'[c].scope.type = "lifespan") =>
              /\ counters' = counters
              /\ \A i \in Instances : Settings(mw'[i]) = Settings(mw[i])
              /\ calls'[c].n_app = 1
              /\ calls'[c].send = "send"
              /\ calls'[c].scope = calls[c].scope \/ calls[c].pc = "idle"
              /\ calls'[c].n_req = 0
              /\ calls'[c].n_resp = 0
              /\ calls'[c].n_exc = 0
              /\ calls'[c].stat_log = <<>>]_vars

\* The lifespan event came first and created the metrics, its handler sent
\* a message and raised, and no counter has a value.
C16_Witness ==
    \E c \in CallIds :
        /\ calls[c].scope.type = "lifespan"
        /\ calls[c].pc = "raised"
        /\ calls[c].raised = "ValueError"
        /\ calls[c].n_app = 1
        /\ calls[c].n_sent = 1
        /\ mw[calls[c].inst].metrics_created
        /\ requests_counter = <<>>
        /\ exceptions_counter = <<>>
        /\ responses_counter = <<>>
        /\ status_codes_counter = <<>>

\* The invocation c enters __call__ in this step.
Enters(c) == calls[c].pc = "idle" /\ calls'[c].pc # "idle"

\* C17: a captured application is never replaced; while none is captured,
\* an event sets starlette_app exactly when it is a lifespan, http or
\* websocket event, to the application its scope carries (None when it
\* carries none), and the request that set it is classified with it; a step
\* in which no event enters leaves starlette_app as it is.
C17_AppCapture ==
    [][\A i \in Instances :
          LET old == mw[i].starlette_app
              new == mw'[i].starlette_app
          IN  /\ old # None => new = old
              /\ \A c \in CallIds :
                     (Enters(c) /\ calls'[c].inst = i) =>
                         LET scope == calls'[c].scope
                             types == {"lifespan", "http", "websocket"}
                         IN  /\ (old = None /\ scope.type \in types)
                                    => new = scope.app
                             /\ (old = None /\ scope.type \notin types)
                                    => new = None
                             /\ (/\ scope.type \in {"http", "websocket"}
                                 /\ mw[i].use_template_urls
                                 /\ new # None
                                 /\ FullMatches(mw'[i], scope) # {})
                                    => \E k \in FullMatches(mw'[i], scope) :
                                           calls'[c].labels.path =
                                               Routes[new][k].path
              /\ (\A c \in CallIds : ~(Enters(c) /\ calls'[c].inst = i))
                     => new = old]_vars

\* The second event is a request that carries app2; app1, captured from the
\* first event, is still the application and its route table gave the label.
C17_Witness ==
    \E c \in CallIds :
        /\ Request(c)
        /\ n_events = 2
        /\ calls[c].scope.app = "app2"
        /\ mw[calls[c].inst].starlette_app = "app1"
        /\ calls[c].labels.path = "/users/{id}"

\* The classified path of a request: the template of the first route that
\* matches in full when there is one and templates are used, else
\* root_path + path.
ClassifiedPath(self, scope) ==
    LET full == FullMatches(self, scope)
    IN  IF self.use_template_urls /\ full # {}
        THEN Routes[self.starlette_app]
                 [CHOOSE k \in full : \A j \in full : k <= j].path
        ELSE scope.root_path \o scope.path

\* The handler of c was given the original send and nothing was counted.
PassedThrough(c) ==
    /\ calls[c].send = "send"
    /\ ~calls[c].in_try
    /\ calls[c].n_req = 0

\* C18: a request is passed through uncounted if and only if its classified
\* path, the value of its path label, is an element of exclude_paths;
\* otherwise it is counted and its handler is given wrapped_send.
C18_ExactExclusion ==
    \A c \in CallIds :
        Request(c) =>
            LET self == mw[calls[c].inst]
                path == ClassifiedPath(self, calls[c].scope)
            IN  /\ calls[c].labels.path = path
                /\ PassedThrough(c) <=> path \in self.exclude_paths
                /\ ~PassedThrough(c) =>
                       /\ calls[c].send = "wrapped_send"
                       /\ calls[c].n_req = 1

\* GET /users/42 with "/users/{id}" excluded: the literal path is not in the
\* exclusion set, the template is, and the request is passed through.
C18_Witness ==
    \E c \in CallIds :
        /\ Request(c)
        /\ calls[c].scope.path = "/users/42"
        /\ calls[c].scope.root_path = ""
        /\ mw[calls[c].inst].exclude_paths = {"/users/{id}"}
        /\ calls[c].labels.path = "/users/{id}"
        /\ PassedThrough(c)
        /\ requests_counter = <<>>

\* C19: an invocation calls the next handler at most once, and an
\* invocation that has ended has called it once, whatever the kind of its
\* event.
C19_HandlerAlwaysInvoked ==
    \A c \in CallIds :
        /\ calls[c].n_app <= 1
        /\ (Ended(c) /\ ~CreationFailed(calls[c])) => calls[c].n_app = 1

\* The (method, path) label sets some counter has a value for.
LabelSets ==
    DOMAIN requests_counter \cup DOMAIN responses_counter
    \cup DOMAIN exceptions_counter
    \cup {[method |-> l.method, path |-> l.path] :
             l \in DOMAIN status_codes_counter}

\* The sum of status_codes_total over the status codes of a label set.
StatusSum(labels) ==
    LET of == {l \in DOMAIN status_codes_counter :
                  l.method = labels.method /\ l.path = labels.path}
    IN  SumOver(status_codes_counter, of)

\* C20: for every (method, path) the values of status_codes_total summed
\* over the status codes equal responses_total, and exceptions_total is at
\* most requests_total, in every state of every interleaving of concurrent
\* requests that complete, fail, are cancelled or are excluded.
C20_CounterConsistency ==
    \A labels \in LabelSets :
        /\ StatusSum(labels) = Value(responses_counter, labels)
        /\ Value(exceptions_counter, labels)
               <= Value(requests_counter, labels)

\* Two requests for one label set, counted under two status codes, one of
\* them failed.
C20_Witness ==
    \E labels \in LabelSets :
        /\ Value(responses_counter, labels) = 2
        /\ Value(exceptions_counter, labels) = 1
        /\ Value(requests_counter, labels) = 2
        /\ \E l1, l2 \in DOMAIN status_codes_counter :
               /\ l1 # l2
               /\ l1.path = labels.path
               /\ l2.path = labels.path
               /\ StatusSum(labels) = 2

====
